---- MODULE Spec2Model ----
(***************************************************************************)
(* cp-rs: concurrent recursive copy.  One main thread builds the initial   *)
(* entries, registers and spawns cpu_count workers, and joins them.  Each  *)
(* worker loops: pop an entry, scan a directory or copy a file, mark       *)
(* itself Idle, and break when every worker in the table is Idle.          *)
(***************************************************************************)
EXTENDS Naturals, Sequences, FiniteSets, TLC

(***************************************************************************)
(* Bounds of the model.                                                    *)
(***************************************************************************)
\* largest cpu_count (num_cpus::get()) explored; cpu_count ranges over 1..MaxWorkers
MaxWorkers == 2
\* largest number of unreadable (permission denied) source paths
MaxFaults == 1

(***************************************************************************)
(* Paths are sequences of components; the filesystem at start.             *)
(***************************************************************************)
PA == <<"a">>
PAB == <<"a", "b">>
PAF == <<"a", "f">>
PABG == <<"a", "b", "g">>
PAL == <<"a", "l">>
PS == <<"s">>
PX == <<"x">>

\* the source tree: /a/{b/{g}, f, l} and /s; l (a symlink) and s (a socket) are
\* neither file nor directory
SrcDirs == {PA, PAB}
SrcFiles == {PAF, PABG}
SrcOther == {PAL, PS}
TreePaths == SrcDirs \cup SrcFiles

\* the order in which fs::read_dir lists the children of a directory
ListDir(dir) ==
    IF dir = PA THEN <<PAB, PAF, PAL>>
    ELSE IF dir = PAB THEN <<PABG>>
    ELSE <<>>

\* a source argument: its path and whether it was written with a trailing "/"
Arg(p, s) == [path |-> p, slash |-> s]

\* the command lines explored (sources; the destination is always /x)
SourceChoices ==
    { <<Arg(PA, FALSE)>>,
      <<Arg(PA, TRUE)>>,
      <<Arg(PAF, FALSE)>>,
      <<Arg(PAB, FALSE), Arg(PAF, FALSE)>>,
      <<Arg(PAB, FALSE), Arg(PAB, FALSE)>>,
      <<Arg(PS, FALSE)>>,
      <<Arg(PAF, FALSE), Arg(PS, FALSE)>> }

DestKinds == {"dir", "absent", "file"}

\* the source paths that may be unreadable: a file and a directory
FaultPaths == {PAF, PAB}

Ids == 0 .. (MaxWorkers - 1)

(***************************************************************************)
(* Values.                                                                 *)
(***************************************************************************)
Initalizing == [tag |-> "Initalizing", path |-> <<>>]
Idle == [tag |-> "Idle", path |-> <<>>]
Scanning(p) == [tag |-> "Scanning", path |-> p]
Coping(p) == [tag |-> "Coping", path |-> p]

EntryFile(src, p) == [kind |-> "File", src |-> src, path |-> p]
EntryDir(src, p) == [kind |-> "Dir", src |-> src, path |-> p]
NoEntry == [kind |-> "None", src |-> <<>>, path |-> <<>>]

VARIABLES
    sources,            \* command line: the source arguments
    destKind,           \* what the destination /x is at start
    unreadable,         \* source paths whose read or listing is denied
    cpu_count,          \* num_cpus::get()
    mainpc,             \* position of lib::main
    next_id,            \* State.next_id
    entries,            \* State.entries: the shared stack
    workers,            \* State.workers: id -> task, registered ids only
    entries_processed,  \* State.entries_processed
    pc,                 \* position of each worker thread
    entry,              \* each worker's popped entry (entry_options)
    new_entries,        \* each worker's read_dir result
    dirs,               \* destination directories that exist
    dfiles,             \* destination regular files that exist
    attempts,           \* per source path: scans (read_dir) / copies (fs::copy) made
    queued,             \* per source path: times pushed onto the stack
    errs,               \* per source path: error events sent
    totals,             \* the two counts last printed on the screen
    held,               \* the mutexes of State each worker holds
    entry_count         \* each worker's entry_count inside update_totals

vars == <<sources, destKind, unreadable, cpu_count, mainpc, next_id, entries,
          workers, entries_processed, pc, entry, new_entries, dirs, dfiles,
          attempts, queued, errs, totals, held, entry_count>>

input == <<sources, destKind, unreadable, cpu_count>>

(***************************************************************************)
(* Path helpers (std::path).                                               *)
(***************************************************************************)
IsPrefix(p, q) == Len(p) <= Len(q) /\ SubSeq(q, 1, Len(p)) = p

Parent(p) == SubSeq(p, 1, Len(p) - 1)

Prefixes(p) == { SubSeq(p, 1, n) : n \in 1 .. Len(p) }

Reverse(s) == [i \in 1 .. Len(s) |-> s[Len(s) + 1 - i]]

is_dir(p) == p \in SrcDirs

is_file(p) == p \in SrcFiles

\* file.strip_prefix(src).expect("Not a prefix"); dest.join(relative)
NotAPrefix == <<"!">>

get_dest(src, dest, file) ==
    IF IsPrefix(src, file)
    THEN dest \o SubSeq(file, Len(src) + 1, Len(file))
    ELSE NotAPrefix

(***************************************************************************)
(* Filesystem adapter: what the std::fs calls do on the modelled tree.     *)
(***************************************************************************)
\* PathBuf::is_dir / is_file of a source argument ("f/" of a regular file is neither)
arg_is_dir(arg) == is_dir(arg.path)

arg_is_file(arg) == is_file(arg.path) /\ ~arg.slash

\* fs::create_dir_all(p) fails when a component of p exists as a regular file
create_dir_all_ok(p, df) == p # NotAPrefix /\ Prefixes(p) \cap df = {}

\* fs::copy(file, to) needs a readable source, an existing parent directory
\* and a target that is not a directory; it overwrites an existing file
copy_ok(file, to, unread, ds) ==
    /\ file \notin unread
    /\ (Len(to) = 1 \/ Parent(to) \in ds)
    /\ to \notin ds

\* fs::read_dir(dir) is denied for an unreadable directory
read_dir_ok(dir, unread) == dir \notin unread

(***************************************************************************)
(* lib::main, lines 205-226: configuration checks and initial entries.     *)
(***************************************************************************)
\* faulty variant: the length test off by one
MultiSourceToFile_OffByOne(srcs, dk) == Len(srcs) > 2 /\ dk = "file"

\* lines 205-209
MultiSourceToFile(srcs, dk) == Len(srcs) > 1 /\ dk = "file"

\* faulty variant: the trailing separator of a directory source is ignored
initial_entry_SlashIgnored(arg) ==
    IF arg_is_dir(arg) THEN EntryDir(Parent(arg.path), arg.path)
    ELSE IF arg_is_file(arg) THEN EntryFile(Parent(arg.path), arg.path)
    ELSE NoEntry

\* lines 214-225, one source; NoEntry stands for the panic of line 224
initial_entry(arg) ==
    IF arg_is_dir(arg)
    THEN IF arg.slash
         THEN EntryDir(arg.path, arg.path)
         ELSE EntryDir(Parent(arg.path), arg.path)
    ELSE IF arg_is_file(arg)
         THEN EntryFile(Parent(arg.path), arg.path)
         ELSE NoEntry

\* line 224 is reached for some source
NeitherFileNorDir(srcs) == \E i \in 1 .. Len(srcs) : initial_entry(srcs[i]) = NoEntry

ConfigPanics(srcs, dk) == MultiSourceToFile(srcs, dk) \/ NeitherFileNorDir(srcs)

\* lines 211-226: the entries vector, in the order of the sources
InitialEntries(srcs) == [i \in 1 .. Len(srcs) |-> initial_entry(srcs[i])]

(***************************************************************************)
(* read_dir, lines 94-118.                                                 *)
(***************************************************************************)
\* lines 100-106: classification of one listed child; one that is neither
\* file nor directory is left out (the per-child errors of lines 108-110 do
\* not arise on the modelled tree)
classify(src, child) ==
    IF is_dir(child) THEN <<EntryDir(src, child)>>
    ELSE IF is_file(child) THEN <<EntryFile(src, child)>>
    ELSE <<>>

RECURSIVE collect(_, _)
collect(src, listing) ==
    IF listing = <<>> THEN <<>>
    ELSE classify(src, Head(listing)) \o collect(src, Tail(listing))

\* faulty variant: the vector is returned in listing order
read_dir_NoReverse(src, dir, unread) ==
    IF read_dir_ok(dir, unread) THEN collect(src, ListDir(dir)) ELSE <<>>

\* the returned vector: the listing classified, then reversed (line 116)
read_dir(src, dir, unread) ==
    IF read_dir_ok(dir, unread) THEN Reverse(collect(src, ListDir(dir))) ELSE <<>>

(***************************************************************************)
(* Counters kept per source path.                                          *)
(***************************************************************************)
Bump(f, p) == [f EXCEPT ![p] = @ + 1]

RECURSIVE BumpAll(_, _)
BumpAll(f, es) ==
    IF es = <<>> THEN f ELSE BumpAll(Bump(f, Head(es).path), Tail(es))

Zero == [p \in TreePaths |-> 0]

(***************************************************************************)
(* update_task, lines 155-161: the write to the status table.              *)
(***************************************************************************)
\* faulty variant: the task is looked at and not stored
update_task_NotStored(id, task) == workers

update_task(id, task) == [workers EXCEPT ![id] = task]

\* faulty variant: a worker still Initalizing is taken for one without work
should_break_SkipsInitalizing(table) ==
    \A i \in DOMAIN table : table[i].tag \in {"Idle", "Initalizing"}

\* lines 325-331: the scan of the table behind should_break
should_break(table) == \A i \in DOMAIN table : table[i].tag = "Idle"

(***************************************************************************)
(* Initial states: a command line, a filesystem and a CPU count.           *)
(***************************************************************************)
Init ==
    /\ sources \in SourceChoices
    /\ destKind \in DestKinds
    /\ unreadable \in { u \in SUBSET FaultPaths : Cardinality(u) <= MaxFaults }
    /\ cpu_count \in 1 .. MaxWorkers
    /\ mainpc = "config"
    /\ next_id = 0
    /\ entries = <<>>
    /\ workers = << >>
    /\ entries_processed = 0
    /\ pc = [w \in Ids |-> "unspawned"]
    /\ entry = [w \in Ids |-> NoEntry]
    /\ new_entries = [w \in Ids |-> <<>>]
    /\ dirs = IF destKind = "dir" THEN {PX} ELSE {}
    /\ dfiles = IF destKind = "file" THEN {PX} ELSE {}
    /\ attempts = Zero
    /\ queued = Zero
    /\ errs = Zero
    /\ totals = [processed |-> 0, remaining |-> 0]
    /\ held = [w \in Ids |-> {}]
    /\ entry_count = [w \in Ids |-> 0]

(***************************************************************************)
(* The mutexes of State (lines 78-88) that the threads share.  A lock()    *)
(* waits until no thread holds the mutex.  A guard that is taken and       *)
(* dropped with no other lock() in between is taken and dropped in one     *)
(* step; the steps that show a mutex held are those of the stack (pop,     *)
(* append, len) and of update_totals, which takes two more while holding   *)
(* entries_processed.                                                      *)
(***************************************************************************)
Locks == {"entries", "workers", "entries_processed", "stdout"}

Free(l) == \A v \in Ids : l \notin held[v]

\* faulty variant: the guard lives on in the match on the popped entry
pop_guard_Kept(h) == h

\* line 280: the guard is a temporary of the block, dropped at its end
pop_guard(h) == h \ {"entries"}

\* faulty variant: the guard outlives the iteration
iteration_end_Kept(h) == h

\* lines 324-335: the workers guard is dropped at the end of the loop body
iteration_end(h) == h \ {"workers"}

(***************************************************************************)
(* The main thread.                                                        *)
(***************************************************************************)
\* lines 205-257: panic on a configuration error, else build the shared state
\* and print the first screen
Configure ==
    /\ mainpc = "config"
    /\ IF ConfigPanics(sources, destKind)
       THEN /\ mainpc' = "panicked"
            /\ UNCHANGED <<entries, queued, totals>>
       ELSE /\ mainpc' = "insert"
            /\ entries' = InitialEntries(sources)
            /\ queued' = BumpAll(queued, InitialEntries(sources))
            /\ totals' = [processed |-> 0, remaining |-> Len(sources)]
    /\ UNCHANGED <<input, next_id, workers, entries_processed, pc, entry,
                   new_entries, dirs, dfiles, attempts, errs,
                   held, entry_count>>

\* lines 263-275: take the next id and insert the worker as Initalizing
Insert ==
    /\ mainpc = "insert"
    /\ Free("workers")
    /\ next_id' = next_id + 1
    /\ workers' = [i \in DOMAIN workers \cup {next_id} |->
                      IF i = next_id THEN Initalizing ELSE workers[i]]
    /\ mainpc' = "update_task"
    /\ UNCHANGED <<input, entries, entries_processed, pc, entry, new_entries,
                   dirs, dfiles, attempts, queued, errs, totals,
                   held, entry_count>>

\* line 276: update_task(&id, Task::Initalizing, ..)
MainUpdateTask ==
    /\ mainpc = "update_task"
    /\ Free("workers")
    /\ workers' = update_task(next_id - 1, Initalizing)
    /\ mainpc' = "spawn"
    /\ UNCHANGED <<input, next_id, entries, entries_processed, pc, entry,
                   new_entries, dirs, dfiles, attempts, queued, errs, totals,
                   held, entry_count>>

\* lines 277-278: thread::spawn; then the next round of the map, or the joins
Spawn ==
    /\ mainpc = "spawn"
    /\ pc' = [pc EXCEPT ![next_id - 1] = "pop"]
    /\ mainpc' = IF next_id < cpu_count THEN "insert" ELSE "join"
    /\ UNCHANGED <<input, next_id, entries, workers, entries_processed, entry,
                   new_entries, dirs, dfiles, attempts, queued, errs, totals,
                   held, entry_count>>

\* lines 340-342: every handle joined
Join ==
    /\ mainpc = "join"
    /\ \A w \in 0 .. (cpu_count - 1) : pc[w] = "exited"
    /\ mainpc' = "done"
    /\ UNCHANGED <<input, next_id, entries, workers, entries_processed, pc,
                   entry, new_entries, dirs, dfiles, attempts, queued, errs, totals,
                   held, entry_count>>

(***************************************************************************)
(* Vec operations on the shared stack.                                     *)
(***************************************************************************)
\* Vec::pop: the element returned and the vector left (line 280)
pop_last(es) == es[Len(es)]

\* faulty variant: the last element is read but left on the stack (Vec::last)
pop_rest_Peek(es) == es

pop_rest(es) == SubSeq(es, 1, Len(es) - 1)

\* faulty variant: the batch replaces the stack instead of extending it
append_Overwrite(es, new) == new

\* Vec::append (line 295)
append(es, new) == es \o new

(***************************************************************************)
(* The worker threads, lines 279-335.                                      *)
(***************************************************************************)
\* line 280: state.entries.lock()
LockPop(w) ==
    /\ pc[w] = "pop"
    /\ Free("entries")
    /\ held' = [held EXCEPT ![w] = @ \cup {"entries"}]
    /\ pc' = [pc EXCEPT ![w] = "pop_locked"]
    /\ UNCHANGED <<input, mainpc, next_id, entries, workers, entries_processed,
                   entry, new_entries, dirs, dfiles, attempts, queued, errs,
                   totals, entry_count>>

\* line 280: .unwrap().pop(), the last element or None; the guard is dropped
Pop(w) ==
    /\ pc[w] = "pop_locked"
    /\ held' = [held EXCEPT ![w] = pop_guard(@)]
    /\ IF entries = <<>>
       THEN /\ entry' = [entry EXCEPT ![w] = NoEntry]
            /\ pc' = [pc EXCEPT ![w] = "update_idle"]
            /\ UNCHANGED entries
       ELSE /\ entry' = [entry EXCEPT ![w] = pop_last(entries)]
            /\ entries' = pop_rest(entries)
            /\ pc' = [pc EXCEPT ![w] =
                         IF pop_last(entries).kind = "Dir"
                         THEN "update_scanning" ELSE "update_coping"]
    /\ UNCHANGED <<input, mainpc, next_id, workers, entries_processed,
                   new_entries, dirs, dfiles, attempts, queued, errs, totals, entry_count>>

\* lines 284-289: update_task(&id, Task::Scanning(dir), ..)
UpdateScanning(w) ==
    /\ pc[w] = "update_scanning"
    /\ Free("workers")
    /\ workers' = update_task(w, Scanning(entry[w].path))
    /\ pc' = [pc EXCEPT ![w] = "mk_dir"]
    /\ UNCHANGED <<input, mainpc, next_id, entries, entries_processed, entry,
                   new_entries, dirs, dfiles, attempts, queued, errs, totals,
                   held, entry_count>>

\* line 291 and lines 125-130: mk_dir; a failure is sent to the error log
MkDir(w) ==
    /\ pc[w] = "mk_dir"
    /\ LET new_dest == get_dest(entry[w].src, PX, entry[w].path)
       IN  IF new_dest = NotAPrefix
           THEN /\ pc' = [pc EXCEPT ![w] = "panicked"]
                /\ UNCHANGED <<dirs, errs>>
           ELSE /\ pc' = [pc EXCEPT ![w] = "read_dir"]
                /\ IF create_dir_all_ok(new_dest, dfiles)
                   THEN /\ dirs' = dirs \cup Prefixes(new_dest)
                        /\ UNCHANGED errs
                   ELSE /\ errs' = Bump(errs, entry[w].path)
                        /\ UNCHANGED dirs
    /\ UNCHANGED <<input, mainpc, next_id, entries, workers, entries_processed,
                   entry, new_entries, dfiles, attempts, queued, totals,
                   held, entry_count>>

\* line 292 and lines 94-118: read_dir; a failed listing is sent to the error log
ReadDir(w) ==
    /\ pc[w] = "read_dir"
    /\ new_entries' = [new_entries EXCEPT ![w] =
                          read_dir(entry[w].src, entry[w].path, unreadable)]
    /\ attempts' = Bump(attempts, entry[w].path)
    /\ errs' = IF read_dir_ok(entry[w].path, unreadable)
               THEN errs ELSE Bump(errs, entry[w].path)
    /\ pc' = [pc EXCEPT ![w] = "append"]
    /\ UNCHANGED <<input, mainpc, next_id, entries, workers, entries_processed,
                   entry, dirs, dfiles, queued, totals,
                   held, entry_count>>

\* line 294: state.entries.lock()
LockAppend(w) ==
    /\ pc[w] = "append"
    /\ Free("entries")
    /\ held' = [held EXCEPT ![w] = @ \cup {"entries"}]
    /\ pc' = [pc EXCEPT ![w] = "append_locked"]
    /\ UNCHANGED <<input, mainpc, next_id, entries, workers, entries_processed,
                   entry, new_entries, dirs, dfiles, attempts, queued, errs,
                   totals, entry_count>>

\* lines 295-296: entries.append(&mut new_entries); the guard is dropped
AppendEntries(w) ==
    /\ pc[w] = "append_locked"
    /\ held' = [held EXCEPT ![w] = @ \ {"entries"}]
    /\ entries' = append(entries, new_entries[w])
    /\ queued' = BumpAll(queued, new_entries[w])
    /\ new_entries' = [new_entries EXCEPT ![w] = <<>>]
    /\ pc' = [pc EXCEPT ![w] = "processed"]
    /\ UNCHANGED <<input, mainpc, next_id, workers, entries_processed, entry,
                   dirs, dfiles, attempts, errs, totals, entry_count>>

\* lines 305-310: update_task(&id, Task::Coping(file), ..)
UpdateCoping(w) ==
    /\ pc[w] = "update_coping"
    /\ Free("workers")
    /\ workers' = update_task(w, Coping(entry[w].path))
    /\ pc' = [pc EXCEPT ![w] = "cp_file"]
    /\ UNCHANGED <<input, mainpc, next_id, entries, entries_processed, entry,
                   new_entries, dirs, dfiles, attempts, queued, errs, totals,
                   held, entry_count>>

\* line 312 and lines 132-137: cp_file; a failure is sent to the error log
CpFile(w) ==
    /\ pc[w] = "cp_file"
    /\ LET new_dest == get_dest(entry[w].src, PX, entry[w].path)
       IN  IF new_dest = NotAPrefix
           THEN /\ pc' = [pc EXCEPT ![w] = "panicked"]
                /\ UNCHANGED <<dfiles, attempts, errs>>
           ELSE /\ pc' = [pc EXCEPT ![w] = "processed"]
                /\ attempts' = Bump(attempts, entry[w].path)
                /\ IF copy_ok(entry[w].path, new_dest, unreadable, dirs)
                   THEN /\ dfiles' = dfiles \cup {new_dest}
                        /\ UNCHANGED errs
                   ELSE /\ errs' = Bump(errs, entry[w].path)
                        /\ UNCHANGED dfiles
    /\ UNCHANGED <<input, mainpc, next_id, entries, workers, entries_processed,
                   entry, new_entries, dirs, queued, totals,
                   held, entry_count>>

\* faulty variant: an entry is counted twice
increment_Twice(n) == n + 2

\* lines 299 and 315: *entries_processed += 1
increment(n) == n + 1

\* lines 297-301 and 313-317: the processed counter; the entry is dropped
Processed(w) ==
    /\ pc[w] = "processed"
    /\ Free("entries_processed")
    /\ entries_processed' = increment(entries_processed)
    /\ entry' = [entry EXCEPT ![w] = NoEntry]
    /\ pc' = [pc EXCEPT ![w] = "update_totals"]
    /\ UNCHANGED <<input, mainpc, next_id, entries, workers, new_entries,
                   dirs, dfiles, attempts, queued, errs, totals,
                   held, entry_count>>

\* lines 302 and 318, line 176: update_totals takes entries_processed and
\* keeps the guard to its end
LockTotals(w) ==
    /\ pc[w] = "update_totals"
    /\ Free("entries_processed")
    /\ held' = [held EXCEPT ![w] = @ \cup {"entries_processed"}]
    /\ pc' = [pc EXCEPT ![w] = "ut_entries"]
    /\ UNCHANGED <<input, mainpc, next_id, entries, workers, entries_processed,
                   entry, new_entries, dirs, dfiles, attempts, queued, errs,
                   totals, entry_count>>

\* line 177: state.entries.lock()
LockLen(w) ==
    /\ pc[w] = "ut_entries"
    /\ Free("entries")
    /\ held' = [held EXCEPT ![w] = @ \cup {"entries"}]
    /\ pc' = [pc EXCEPT ![w] = "ut_len"]
    /\ UNCHANGED <<input, mainpc, next_id, entries, workers, entries_processed,
                   entry, new_entries, dirs, dfiles, attempts, queued, errs,
                   totals, entry_count>>

\* line 177: .unwrap().len(); the guard is dropped
ReadLen(w) ==
    /\ pc[w] = "ut_len"
    /\ entry_count' = [entry_count EXCEPT ![w] = Len(entries)]
    /\ held' = [held EXCEPT ![w] = @ \ {"entries"}]
    /\ pc' = [pc EXCEPT ![w] = "ut_print"]
    /\ UNCHANGED <<input, mainpc, next_id, entries, workers, entries_processed,
                   entry, new_entries, dirs, dfiles, attempts, queued, errs,
                   totals>>

\* lines 178-190: stdout is taken, the two counts are printed, and both
\* guards are dropped at the end of update_totals
UpdateTotals(w) ==
    /\ pc[w] = "ut_print"
    /\ Free("stdout")
    /\ totals' = [processed |-> entries_processed, remaining |-> entry_count[w]]
    /\ entry_count' = [entry_count EXCEPT ![w] = 0]
    /\ held' = [held EXCEPT ![w] = @ \ {"entries_processed", "stdout"}]
    /\ pc' = [pc EXCEPT ![w] = "update_idle"]
    /\ UNCHANGED <<input, mainpc, next_id, entries, workers, entries_processed,
                   entry, new_entries, dirs, dfiles, attempts, queued, errs>>

\* line 323: update_task(&id, Task::Idle, ..), at the end of every iteration
UpdateIdle(w) ==
    /\ pc[w] = "update_idle"
    /\ Free("workers")
    /\ workers' = update_task(w, Idle)
    /\ pc' = [pc EXCEPT ![w] = "check"]
    /\ UNCHANGED <<input, mainpc, next_id, entries, entries_processed, entry,
                   new_entries, dirs, dfiles, attempts, queued, errs, totals,
                   held, entry_count>>

\* lines 324-334: under the workers lock, break when every task is Idle
Check(w) ==
    /\ pc[w] = "check"
    /\ Free("workers")
    /\ held' = [held EXCEPT ![w] =
                   IF should_break(workers) THEN @ ELSE iteration_end(@ \cup {"workers"})]
    /\ pc' = [pc EXCEPT ![w] = IF should_break(workers) THEN "exited" ELSE "pop"]
    /\ UNCHANGED <<input, mainpc, next_id, entries, workers, entries_processed,
                   entry, new_entries, dirs, dfiles, attempts, queued, errs, totals, entry_count>>

Worker(w) ==
    \/ LockPop(w)
    \/ Pop(w)
    \/ UpdateScanning(w)
    \/ MkDir(w)
    \/ ReadDir(w)
    \/ LockAppend(w)
    \/ AppendEntries(w)
    \/ UpdateCoping(w)
    \/ CpFile(w)
    \/ Processed(w)
    \/ LockTotals(w)
    \/ LockLen(w)
    \/ ReadLen(w)
    \/ UpdateTotals(w)
    \/ UpdateIdle(w)
    \/ Check(w)

Main == Configure \/ Insert \/ MainUpdateTask \/ Spawn \/ Join

Next == Main \/ \E w \in Ids : Worker(w)

Spec == Init /\ [][Next]_vars

\* the fairness of the OS scheduler: a thread that can step eventually does
FairSpec ==
    /\ Spec
    /\ WF_vars(Main)
    /\ \A w \in Ids : WF_vars(Worker(w))

\* fair mutexes: a thread whose lock() finds the mutex free again and again
\* gets it in the end
LockFairSpec == Spec /\ WF_vars(Main) /\ \A w \in Ids : SF_vars(Worker(w))

(***************************************************************************)
(* Notions the properties are stated in.                                   *)
(***************************************************************************)
\* the worker threads of the pool
Pool == 0 .. (cpu_count - 1)

\* worker w breaks out of its loop in this step
Exits(w) == pc[w] = "check" /\ pc'[w] = "exited"

\* w has popped an entry and has not finished processing it: a Directory's
\* children are not pushed yet, a File's copy is not made yet
InFlight(w) ==
    pc[w] \in {"update_scanning", "mk_dir", "read_dir", "append", "append_locked",
               "update_coping", "cp_file"}

\* w has popped an entry that the processed counter does not count yet
Uncounted(w) == InFlight(w) \/ pc[w] = "processed"

\* w holds an entry whose scan or copy has not been attempted yet
Unattempted(w) ==
    pc[w] \in {"update_scanning", "mk_dir", "read_dir", "update_coping", "cp_file"}

AllIdle == \A i \in DOMAIN workers : workers[i] = Idle

RECURSIVE Sum(_, _)
Sum(f, S) ==
    IF S = {} THEN 0
    ELSE LET x == CHOOSE y \in S : TRUE IN f[x] + Sum(f, S \ {x})

\* occurrences of source path p on the stack
OnStack(p) == Cardinality({ i \in 1 .. Len(entries) : entries[i].path = p })

\* workers holding source path p with its scan or copy still to come
Holders(p) == Cardinality({ w \in Ids : Unattempted(w) /\ entry[w].path = p })

\* the paths a complete run visits: the sources and, below every listable
\* directory, its children
RECURSIVE Closure(_, _)
Closure(S, n) ==
    IF n = 0 THEN S
    ELSE Closure(S \cup { c \in TreePaths :
                            /\ Parent(c) \in S
                            /\ is_dir(Parent(c))
                            /\ read_dir_ok(Parent(c), unreadable) }, n - 1)

Reachable == Closure({ sources[i].path : i \in 1 .. Len(sources) }, Cardinality(TreePaths))

\* two source arguments name the same path, or one lies inside the other
Overlapping ==
    \E i, j \in 1 .. Len(sources) :
        i # j /\ IsPrefix(sources[i].path, sources[j].path)

\* an entry pushed by a scan, not built from a source argument
IsChild(e) == \A i \in 1 .. Len(sources) : e # initial_entry(sources[i])

(***************************************************************************)
(* C1: at the moment a worker breaks out of its loop the shared stack is   *)
(* empty.                                                                  *)
(***************************************************************************)
C1_ExitOnlyOnEmptyStack ==
    [][\A w \in Ids : Exits(w) => entries = <<>>]_vars

(***************************************************************************)
(* C2: no worker breaks out of its loop while a sibling has popped an      *)
(* entry and not yet finished processing it.                               *)
(***************************************************************************)
C2_NoExitWhileSiblingInFlight ==
    [][\A w \in Ids : Exits(w) => \A v \in Ids \ {w} : ~InFlight(v)]_vars

(***************************************************************************)
(* C3: once main has joined every worker, the stack is empty and every     *)
(* reachable directory has been scanned and every reachable file has had   *)
(* a copy attempt.                                                         *)
(***************************************************************************)
C3_CompleteAtJoin ==
    mainpc = "done" =>
        /\ entries = <<>>
        /\ \A p \in Reachable : attempts[p] >= 1

(***************************************************************************)
(* C4: under fair scheduling a run that passes the configuration checks    *)
(* eventually has the stack empty, every worker Idle and every worker      *)
(* joined, all at once.                                                    *)
(***************************************************************************)
C4_ReachesQuiescence ==
    <>(\/ mainpc = "panicked"
       \/ /\ mainpc = "done"
          /\ entries = <<>>
          /\ AllIdle)

(***************************************************************************)
(* C5 as stated: no source path is on the stack twice or held by two       *)
(* workers, and no source path is scanned or copied more than once.        *)
(***************************************************************************)
C5_AtMostOncePerPath ==
    \A p \in TreePaths :
        /\ OnStack(p) <= 1
        /\ Cardinality({ w \in Ids : Uncounted(w) /\ entry[w].path = p }) <= 1
        /\ attempts[p] <= 1

(***************************************************************************)
(* C5 as amended: every queued occurrence of a source path is on the       *)
(* stack, or held by one worker that has yet to act on it, or has had its  *)
(* one scan or copy, so none is acted on twice or queued again after a     *)
(* failure; and when no two source arguments overlap, no source path is    *)
(* queued more than once.                                                  *)
(***************************************************************************)
C5_AtMostOncePerOccurrence ==
    /\ \A p \in TreePaths : OnStack(p) + Holders(p) + attempts[p] = queued[p]
    /\ ~Overlapping => \A p \in TreePaths : queued[p] <= 1

\* a run of non-overlapping sources has ended with a failed copy, made once
C5_Witness ==
    /\ mainpc = "done"
    /\ ~Overlapping
    /\ \E p \in SrcFiles : attempts[p] = 1 /\ errs[p] = 1 /\ queued[p] = 1

(***************************************************************************)
(* C6: the entries discovered so far (initial entries and children pushed  *)
(* by scans) are those on the stack, those popped and not yet counted, and *)
(* those counted as processed.                                             *)
(***************************************************************************)
C6_Conservation ==
    Sum(queued, TreePaths) =
        Len(entries) + Cardinality({ w \in Ids : Uncounted(w) }) + entries_processed

\* two workers hold an entry each while one is on the stack and one is counted
C6_Witness ==
    /\ Cardinality({ w \in Ids : Uncounted(w) }) = 2
    /\ Len(entries) >= 1
    /\ entries_processed >= 1

C8_ParentDestExists ==
    \A i \in 1 .. Len(entries) :
        IsChild(entries[i]) =>
            get_dest(entries[i].src, PX, Parent(entries[i].path)) \in dirs

(***************************************************************************)
(* C9: at the end of a run in which the copy of a file F failed, F has     *)
(* one error event and every discovered sibling of F has been processed.   *)
(***************************************************************************)
C9_FailureIsolated ==
    mainpc = "done" =>
        \A f \in SrcFiles :
            (attempts[f] >= 1 /\ errs[f] >= 1) =>
                /\ errs[f] = 1
                /\ \A s \in TreePaths :
                       (Parent(s) = Parent(f) /\ queued[s] >= 1) => attempts[s] >= 1

(***************************************************************************)
(* C10: with more than one source and a regular file as destination, or    *)
(* with a source that is neither file nor directory, no worker is ever     *)
(* registered or spawned, nothing is popped, no directory is created and   *)
(* no file is copied.                                                      *)
(***************************************************************************)
C10_ConfigError ==
    \/ Len(sources) > 1 /\ destKind = "file"
    \/ \E i \in 1 .. Len(sources) : sources[i].path \notin SrcDirs \cup SrcFiles

\* C10: a run with a configuration error never leaves the configuration step
\* other than by the panic, and leaves the table, the threads, the counter and
\* the destination as they were at start
C10_ConfigErrorDoesNoWork ==
    C10_ConfigError =>
        /\ mainpc \in {"config", "panicked"}
        /\ DOMAIN workers = {}
        /\ \A w \in Ids : pc[w] = "unspawned" /\ entry[w] = NoEntry
        /\ entries_processed = 0
        /\ attempts = Zero
        /\ dirs = (IF destKind = "dir" THEN {PX} ELSE {})
        /\ dfiles = (IF destKind = "file" THEN {PX} ELSE {})

\* the run has panicked on several sources with a regular file as destination
C10_Witness ==
    /\ mainpc = "panicked"
    /\ Len(sources) > 1
    /\ destKind = "file"
    /\ \A i \in 1 .. Len(sources) : sources[i].path \in TreePaths

(***************************************************************************)
(* C11: with no filesystem failure, every run that ends has created the    *)
(* same destination directories and copied the same files, whatever the    *)
(* interleaving: those of the copy of everything reachable.                *)
(***************************************************************************)
\* the entries a run visits when every listed child is processed
RECURSIVE EntryClosure(_, _)
EntryClosure(S, n) ==
    IF n = 0 THEN S
    ELSE EntryClosure(
             S \cup UNION { { read_dir(e.src, e.path, unreadable)[i] :
                                i \in 1 .. Len(read_dir(e.src, e.path, unreadable)) } :
                            e \in { x \in S : x.kind = "Dir" } },
             n - 1)

AllEntries ==
    EntryClosure({ initial_entry(sources[i]) : i \in 1 .. Len(sources) },
                 Cardinality(TreePaths))

FullDirs ==
    (IF destKind = "dir" THEN {PX} ELSE {})
        \cup UNION { Prefixes(get_dest(e.src, PX, e.path)) :
                       e \in { x \in AllEntries : x.kind = "Dir" } }

FullFiles ==
    { get_dest(e.src, PX, e.path) : e \in { x \in AllEntries : x.kind = "File" } }

NoFailure == unreadable = {} /\ errs = Zero

C11_SameResult ==
    (mainpc = "done" /\ NoFailure) => (dirs = FullDirs /\ dfiles = FullFiles)

(***************************************************************************)
(* C12: the source_root of an entry is its source argument's parent, or    *)
(* the argument itself for a directory given with a trailing separator;    *)
(* children inherit it; it is a prefix of every queued path, so resolution *)
(* never fails, and every destination is dest_root joined with the path    *)
(* minus the source_root.                                                  *)
(***************************************************************************)
\* the source_root the rule gives to a source argument
ClaimRoot(arg) ==
    IF arg.path \in SrcDirs /\ arg.slash THEN arg.path ELSE Parent(arg.path)

Relative(root, p) == SubSeq(p, Len(root) + 1, Len(p))

\* every entry on the stack or in a worker's hands
LiveEntries ==
    { entries[i] : i \in 1 .. Len(entries) }
        \cup { entry[w] : w \in { v \in Ids : entry[v] # NoEntry } }
        \cup UNION { { new_entries[w][i] : i \in 1 .. Len(new_entries[w]) } : w \in Ids }

\* where the rule puts the paths at or below the source arguments
ClaimDests ==
    UNION { { PX \o Relative(ClaimRoot(sources[i]), p) :
                p \in { q \in TreePaths : IsPrefix(sources[i].path, q) } } :
            i \in 1 .. Len(sources) }

C12_Resolution ==
    /\ \A e \in LiveEntries :
          /\ \E i \in 1 .. Len(sources) :
                e.src = ClaimRoot(sources[i]) /\ IsPrefix(sources[i].path, e.path)
          /\ IsPrefix(e.src, e.path)
          /\ get_dest(e.src, PX, e.path) = PX \o Relative(e.src, e.path)
    /\ \A w \in Ids : pc[w] # "panicked"
    /\ dfiles \subseteq ClaimDests \cup (IF destKind = "file" THEN {PX} ELSE {})
    /\ dirs \subseteq ClaimDests \cup {PX}

\* a/ was given with its separator: its file f is copied straight into x
C12_Witness ==
    /\ sources = <<Arg(PA, TRUE)>>
    /\ (PX \o <<"f">>) \in dfiles
    /\ \E e \in LiveEntries : e.path = PABG /\ e.src = PA

(***************************************************************************)
(* C13: a worker inside a filesystem call (create_dir_all, read_dir,       *)
(* fs::copy) holds no mutex; the stack mutex is held only for the single   *)
(* pop or the single batch append.                                         *)
(***************************************************************************)
InFsCall(w) == pc[w] \in {"mk_dir", "read_dir", "cp_file"}

NoLockAcrossIO == \A w \in Ids : InFsCall(w) => held[w] = {}

C13_StackLockOnlyForPopOrAppend ==
    /\ NoLockAcrossIO
    /\ \A w \in Ids : "entries" \in held[w] => pc[w] \in {"pop_locked", "append_locked"}

\* amended: the stack mutex is also held, under entries_processed, for the
\* len() of update_totals
C13_StackLockShortSections ==
    /\ NoLockAcrossIO
    /\ \A w \in Ids :
          /\ "entries" \in held[w] =>
                \/ pc[w] \in {"pop_locked", "append_locked"} /\ held[w] = {"entries"}
                \/ pc[w] = "ut_len" /\ held[w] = {"entries", "entries_processed"}
          /\ pc[w] \in {"pop_locked", "append_locked", "ut_len"} => "entries" \in held[w]

\* one worker copies a file while another holds the stack for its pop
C13_Witness ==
    \E w, v \in Ids : pc[w] = "cp_file" /\ held[w] = {} /\ pc[v] = "pop_locked"

(***************************************************************************)
(* C14: a worker marks itself Idle and runs the termination check only in  *)
(* an iteration whose pop found the stack empty; after processing an entry *)
(* it goes back to the pop without either.                                 *)
(***************************************************************************)
\* the worker arrives at update_task(Idle), line 323
TurnsIdle(w) == pc[w] # "update_idle" /\ pc'[w] = "update_idle"

C14_IdleOnlyAfterEmptyPop ==
    [][\A w \in Ids : TurnsIdle(w) => (pc[w] = "pop_locked" /\ entries = <<>>)]_vars

(***************************************************************************)
(* C15: once a worker has exited its loop, no worker pops an entry, scans  *)
(* a directory, copies a file or pushes entries any more.                  *)
(***************************************************************************)
SomeExited == \E w \in Ids : pc[w] = "exited"

\* a step that pops an entry, scans, copies or pushes
DoesWork ==
    \/ Len(entries') < Len(entries)
    \/ attempts' # attempts
    \/ queued' # queued

C15_NoWorkAfterFirstExit == [][SomeExited => ~DoesWork]_vars

(***************************************************************************)
(* C16: the all-Idle check never passes on a table that is missing pool    *)
(* workers: no worker exits before all cpu_count workers are registered.   *)
(***************************************************************************)
C16_ExitOnlyWithWholePool ==
    [][\A w \in Ids : Exits(w) => DOMAIN workers = Pool]_vars

(***************************************************************************)
(* C17: the stack is LIFO and a scan's children are appended in the order  *)
(* of their discovery, so that the pop after a batch push returns the      *)
(* child discovered last.                                                  *)
(***************************************************************************)
FileOrDir(c) == is_dir(c) \/ is_file(c)

\* the children of dir in the order the listing yields them
Discovered(dir) ==
    IF dir \in unreadable THEN <<>> ELSE SelectSeq(ListDir(dir), FileOrDir)

PathsOf(es) == [i \in 1 .. Len(es) |-> es[i].path]

\* worker w's step is the pop of line 280 on a stack that is not empty
Pops(w) == pc[w] = "pop_locked" /\ pc'[w] # "pop_locked" /\ entries # <<>>

\* worker w's step is the append of line 295
Pushes(w) == pc[w] = "append_locked" /\ pc'[w] = "processed"

Top(s) == s[Len(s)]

LIFO ==
    \A w \in Ids :
        Pops(w) => /\ entry'[w] = Top(entries)
                   /\ entries' = SubSeq(entries, 1, Len(entries) - 1)

C17_PushInDiscoveryOrder ==
    [][/\ LIFO
       /\ \A w \in Ids :
             Pushes(w) =>
                /\ entries' = entries \o new_entries[w]
                /\ PathsOf(new_entries[w]) = Discovered(entry[w].path)
                /\ Discovered(entry[w].path) # <<>> =>
                      Top(entries').path = Top(Discovered(entry[w].path))]_vars

\* amended: the batch is the listing reversed (line 116), so the top of the
\* stack after the push is the child discovered first
C17_PushInReverseDiscoveryOrder ==
    [][/\ LIFO
       /\ \A w \in Ids :
             Pushes(w) =>
                /\ entries' = entries \o new_entries[w]
                /\ PathsOf(new_entries[w]) = Reverse(Discovered(entry[w].path))
                /\ Discovered(entry[w].path) # <<>> =>
                      Top(entries').path = Head(Discovered(entry[w].path))]_vars

\* a has been scanned and its two children pushed: a/b, listed first, is on top
C17_Witness ==
    \E w \in Ids :
        /\ pc[w] = "processed"
        /\ entry[w].path = PA
        /\ Len(entries) >= 2
        /\ Top(entries).path = PAB
        /\ entries[Len(entries) - 1].path = PAF

(***************************************************************************)
(* C18: entries_processed starts at 0, is incremented exactly once for     *)
(* each popped entry, failed or not, after its processing, never           *)
(* decreases, and equals the number of completed entries; the totals are   *)
(* printed after each completed entry.                                     *)
(***************************************************************************)
\* w's scan or copy has been attempted and its entry is not counted yet
AttemptedUncounted(w) == pc[w] \in {"append", "append_locked", "processed"}

\* w has counted its entry and not yet printed the totals
TotalsDue(w) == pc[w] \in {"update_totals", "ut_entries", "ut_len", "ut_print"}

\* w's step is the += 1 of line 299 or 315
Counts(w) == pc[w] = "processed" /\ pc'[w] = "update_totals"

\* w's step is the print of update_totals, lines 179-189
Prints(w) == pc[w] = "ut_print" /\ pc'[w] # "ut_print"

CountedOnce ==
    /\ mainpc = "config" => entries_processed = 0
    /\ entries_processed + Cardinality({ w \in Ids : AttemptedUncounted(w) })
          = Sum(attempts, TreePaths)
    /\ totals.processed <= entries_processed

CountStep ==
    /\ entries_processed' >= entries_processed
    /\ entries_processed' # entries_processed =>
          /\ entries_processed' = entries_processed + 1
          /\ \E w \in Ids : Counts(w) /\ entry[w] # NoEntry
    /\ \A w \in Ids :
          /\ Counts(w) => entries_processed' = entries_processed + 1
          /\ (TotalsDue(w) /\ ~TotalsDue(w)') => Prints(w)
          /\ Prints(w) => /\ totals'.processed = entries_processed
                          /\ totals'.processed >= 1
                          /\ totals'.remaining = entry_count[w]
          /\ (pc[w] = "ut_len" /\ pc'[w] = "ut_print") =>
                entry_count'[w] = Len(entries)

C18_ProcessedCounter == []CountedOnce /\ [][CountStep]_vars

\* the copy of a/f failed and was counted all the same, after another entry
C18_Witness ==
    /\ errs[PAF] = 1
    /\ attempts[PAF] = 1
    /\ entries_processed = 2
    /\ totals.processed = 2
    /\ Sum(attempts, TreePaths) = 2

(***************************************************************************)
(* C19: the lock protocol is free of deadlock: in no reachable state is    *)
(* there a set of workers each waiting for a mutex held by a member of the *)
(* set, and under fair scheduling every lock() returns.                    *)
(***************************************************************************)
\* the positions at which a worker's next step is a lock()
LockPcs ==
    {"pop", "append", "ut_entries", "processed", "update_totals", "ut_print",
     "update_scanning", "update_coping", "update_idle", "check"}

\* the mutex that lock() is called on
Wants(w) ==
    CASE pc[w] \in {"pop", "append", "ut_entries"} -> "entries"
      [] pc[w] \in {"processed", "update_totals"} -> "entries_processed"
      [] pc[w] = "ut_print" -> "stdout"
      [] pc[w] \in {"update_scanning", "update_coping", "update_idle", "check"} -> "workers"
      [] OTHER -> "none"

Blocked(w) == Wants(w) \in Locks /\ ~Free(Wants(w))

\* every member of S waits for a mutex that a member of S holds
WaitCycle(S) == \A w \in S : Blocked(w) /\ \E v \in S : Wants(w) \in held[v]

NoWaitCycle == \A S \in (SUBSET Ids) \ {{}} : ~WaitCycle(S)

StatusShowsWork ==
    \A w \in Ids :
        /\ pc[w] \in {"mk_dir", "read_dir"} =>
              /\ entry[w].kind = "Dir"
              /\ w \in DOMAIN workers
              /\ workers[w] = Scanning(entry[w].path)
        /\ pc[w] = "cp_file" =>
              /\ entry[w].kind = "File"
              /\ w \in DOMAIN workers
              /\ workers[w] = Coping(entry[w].path)
        /\ pc[w] = "exited" => (w \in DOMAIN workers /\ workers[w] = Idle)

NeverBackToInitalizing ==
    \A w \in DOMAIN workers :
        workers[w] # Initalizing => (w \in DOMAIN workers' /\ workers'[w] # Initalizing)

C20_StatusFidelity == []StatusShowsWork /\ [][NeverBackToInitalizing]_vars

\* one worker scans a/b while the other copies a/f, and both statuses say so
C20_Witness ==
    \E w, v \in Ids :
        /\ pc[w] = "read_dir" /\ workers[w] = Scanning(PAB)
        /\ pc[v] = "cp_file" /\ workers[v] = Coping(PAF)

====
